---- MODULE Spec2Model ----
(***************************************************************************)
(* Model of the ZeroDev intent sample scripts:                             *)
(*   intent-example.ts, cross-chain-intent.ts (part_000),                  *)
(*   cab-explorer.ts (part_001), polygon-cab-explorer.ts (part_002),       *)
(*   simplest-intent.ts (part_003).                                        *)
(* The relay, the chains and the SDK calls the scripts make are the        *)
(* environment: every call either returns or throws.                       *)
(***************************************************************************)
EXTENDS Integers, Sequences, FiniteSets

VARIABLES
  script,       \* which script's main() is running
  pc,           \* the await main() is suspended on
  result,       \* the SubmissionResult returned by sendUserIntent
  waits,        \* per tracking handle: state of the wait issued on it
  receipts,     \* per tracking handle: what its wait resolved with
  issued,       \* per tracking handle: number of waits issued on it
  submissions,  \* number of sendUserIntent calls
  trail,        \* tracker states entered so far, in order
  outcomes,     \* terminal outcomes reported so far, in order
  console,      \* console lines written so far (event names)
  cabPc,        \* where the getCAB call is
  query,        \* per (chain, ticker) pair: state of its balance query
  returned,     \* per pair: the amount its balance query returned
  entry,        \* per pair: the amount of its per-chain Balance in the result
  total,        \* per ticker: the unified amount of the result
  warnings,     \* pairs whose query failed
  cab,          \* cab.tokens, as getCAB returned it
  chainBalances,\* cab-explorer: chain id -> the entries pushed under it
  printed,      \* cab-explorer: balance lines written so far, in order
  formatArg,    \* formatTokenAmount called on its own: the argument
  formatted     \* formatTokenAmount called on its own: the tag returned

trackerVars == <<script, pc, result, waits, receipts, issued, submissions,
                 trail, outcomes, console>>
viewVars == <<cab, chainBalances, printed>>
formatVars == <<formatArg, formatted>>
cabVars == <<cabPc, query, returned, entry, total, warnings, viewVars,
             formatVars>>
vars == <<trackerVars, cabVars>>

----------------------------------------------------------------------------
(* Bounds *)

MaxInputs == 3      \* the relay returns 0..MaxInputs input tracking handles
MaxTx == 2          \* transaction identifiers a receipt can carry
NumChains == 2      \* networks handed to getCAB
MaxAmount == 5      \* a balance is 0..MaxAmount times AmountUnit base units
AmountUnit == 1000000

----------------------------------------------------------------------------
(* Values *)

Scripts == {"intent-example", "cross-chain-intent", "simplest-intent"}

Out == 0                                  \* result.outputUiHash.uiHash
InputHandles(n) == 1..n                   \* result.inputsUiHash[i].uiHash
Handles == {Out} \cup InputHandles(MaxInputs)

NoResult == [inputs |-> {}, output |-> -1]
NoReceipt == [handle |-> -1, tx |-> 0]

Range(s) == {s[i] : i \in 1..Len(s)}

\* inputTokens of the script's intentDefinition
InputTokenCount(s) == IF s = "intent-example" THEN 0 ELSE 1

\* does main() wait for the open receipts before the execution receipt
WaitsOnInputs(s) == s # "simplest-intent"

\* does a failure leave main() (main().catch, process.exit(1))
ExitsOnError(s) == s = "intent-example"

\* does main() query the balances again after the execution
RefreshesCab(s) == s = "cross-chain-intent"

----------------------------------------------------------------------------
(* The intent scripts: submission and receipt tracking *)

\* a wait that has neither resolved nor thrown: asleep between two polls of
\* the relay ("pending") or with a poll on its way ("polling")
InFlight(w) == w \in {"pending", "polling"}

\* the tracker state the script is in
State == IF trail = <<>> THEN "Idle" ELSE trail[Len(trail)]

HandlesFromTokens(s, res) ==
  IF WaitsOnInputs(s) THEN InputHandles(InputTokenCount(s)) ELSE {}

\* the handles the script's Promise.all maps over
HandlesToOpen(s, res) == IF WaitsOnInputs(s) THEN res.inputs ELSE {}

\* the handle handed to waitForUserIntentExecutionReceipt
OutputHandle(res) == res.output

IssueWaitsSkipLast(iss, hs) ==
  [h \in Handles |->
     IF h \in hs /\ (Cardinality(hs) = 1 \/ \E g \in hs : g > h)
       THEN iss[h] + 1 ELSE iss[h]]

\* a wait issued on every handle of hs
IssueWaits(iss, hs) ==
  [h \in Handles |-> IF h \in hs THEN iss[h] + 1 ELSE iss[h]]

ExecutedWithoutReceipt(r) ==
  [kind |-> "Executed", error |-> "none", receipts |-> {}]

\* the receipt the output wait resolved with is what the script reports
ExecutedOutcome(r) ==
  [kind |-> "Executed", error |-> "none", receipts |-> {r}]

\* catch (error): only the error of the failing call reaches the handler
FailedOutcome(err) == [kind |-> "Failed", error |-> err, receipts |-> {}]

\* the lines the script writes when it reports a failure
ErrorLines(s) ==
  IF s = "cross-chain-intent" THEN <<"error", "completed">> ELSE <<"error">>

\* the lines the script writes when the execution receipt arrives
ExecutedLines(s) ==
  IF s = "intent-example" THEN <<"executed", "completed">> ELSE <<"executed">>

TrackerInit ==
  /\ script \in Scripts
  /\ pc = "start"
  /\ result = NoResult
  /\ waits = [h \in Handles |-> "none"]
  /\ receipts = [h \in Handles |-> NoReceipt]
  /\ issued = [h \in Handles |-> 0]
  /\ submissions = 0
  /\ trail = <<>>
  /\ outcomes = <<>>
  /\ console = <<>>

CatchAndRetry(err, failed) ==
  /\ trail' = Append(trail, "Failed")
  /\ outcomes' = Append(outcomes, FailedOutcome(err))
  /\ console' = console \o ErrorLines(script)
  /\ pc' = "start"
  /\ waits' = [h \in Handles |-> IF h \in failed THEN "failed" ELSE waits[h]]

\* the handler the error of a failing call reaches: the catch block of main()
\* (cross-chain-intent, simplest-intent) or main().catch with process.exit(1)
\* (intent-example); failed holds the handle whose wait threw
Catch(err, failed) ==
  /\ trail' = Append(trail, "Failed")
  /\ outcomes' = Append(outcomes, FailedOutcome(err))
  /\ console' = console \o ErrorLines(script)
  /\ IF ExitsOnError(script)
       THEN /\ pc' = "exited"
            /\ waits' = [h \in Handles |->
                           IF h \in failed THEN "failed"
                           ELSE IF InFlight(waits[h]) THEN "killed"
                           ELSE waits[h]]
       ELSE /\ pc' = "done"
            /\ waits' = [h \in Handles |->
                           IF h \in failed THEN "failed" ELSE waits[h]]

\* await intentClient.sendUserIntent(intentDefinition) is issued
Submit ==
  /\ pc = "start"
  /\ pc' = "sending"
  /\ submissions' = submissions + 1
  /\ console' = Append(console, "submitting")
  /\ UNCHANGED <<script, result, waits, receipts, issued, trail, outcomes>>
  /\ UNCHANGED cabVars

\* sendUserIntent throws
SubmitFails ==
  /\ pc = "sending"
  /\ Catch("submit", {})
  /\ UNCHANGED <<script, result, receipts, issued, submissions>>
  /\ UNCHANGED cabVars

\* sendUserIntent returns a SubmissionResult with n input handles; main()
\* runs on to its next await: the Promise.all over the input waits, or
\* (simplest-intent) the execution wait
SubmitReturns(n) ==
  /\ pc = "sending"
  /\ LET res == [inputs |-> InputHandles(n), output |-> Out]
         hs == HandlesToOpen(script, res)
     IN /\ result' = res
        /\ IF WaitsOnInputs(script)
             THEN /\ waits' = [h \in Handles |->
                                 IF h \in hs THEN "pending" ELSE waits[h]]
                  /\ issued' = IssueWaits(issued, hs)
                  /\ trail' = trail \o <<"Submitted", "OpeningInputs">>
                  /\ console' = console \o <<"sent", "waitingInputs">>
                  /\ pc' = "opening"
             ELSE /\ waits' = [waits EXCEPT ![OutputHandle(res)] = "pending"]
                  /\ issued' = IssueWaits(issued, {OutputHandle(res)})
                  /\ trail' = trail \o <<"Submitted", "Executing">>
                  /\ console' = console \o <<"sent", "waitingExecution">>
                  /\ pc' = "executing"
  /\ UNCHANGED <<script, receipts, submissions, outcomes>>
  /\ UNCHANGED cabVars

\* waitForUserIntentOpenReceipt on input handle h resolves; the mapper logs
\* the receipt
InputWaitResolves(h, tx) ==
  /\ h # OutputHandle(result)
  /\ InFlight(waits[h])
  /\ waits' = [waits EXCEPT ![h] = "ok"]
  /\ receipts' = [receipts EXCEPT ![h] = [handle |-> h, tx |-> tx]]
  /\ console' = Append(console, "opened")
  /\ UNCHANGED <<script, pc, result, issued, submissions, trail, outcomes>>
  /\ UNCHANGED cabVars

\* waitForUserIntentOpenReceipt on input handle h throws while main() awaits
\* the Promise.all: the Promise.all rejects and the error reaches the handler
InputWaitFails(h) ==
  /\ h # OutputHandle(result)
  /\ InFlight(waits[h])
  /\ pc = "opening"
  /\ Catch("input", {h})
  /\ UNCHANGED <<script, result, receipts, issued, submissions>>
  /\ UNCHANGED cabVars

\* waitForUserIntentOpenReceipt on input handle h throws after the
\* Promise.all has rejected: the rejection reaches nobody
OrphanWaitFails(h) ==
  /\ h # OutputHandle(result)
  /\ InFlight(waits[h])
  /\ pc # "opening"
  /\ waits' = [waits EXCEPT ![h] = "failed"]
  /\ UNCHANGED <<script, pc, result, receipts, issued, submissions, trail,
                 outcomes, console>>
  /\ UNCHANGED cabVars

JoinOnFirst ==
  /\ pc = "opening"
  /\ \E h \in HandlesToOpen(script, result) : waits[h] = "ok"
  /\ waits' = [waits EXCEPT ![OutputHandle(result)] = "pending"]
  /\ issued' = IssueWaits(issued, {OutputHandle(result)})
  /\ trail' = trail \o <<"Opened", "Executing">>
  /\ console' = Append(console, "waitingExecution")
  /\ pc' = "executing"
  /\ UNCHANGED <<script, result, receipts, submissions, outcomes>>
  /\ UNCHANGED cabVars

\* every mapper of the Promise.all has resolved: main() issues the wait on
\* the output handle
JoinResolves ==
  /\ pc = "opening"
  /\ \A h \in HandlesToOpen(script, result) : waits[h] = "ok"
  /\ waits' = [waits EXCEPT ![OutputHandle(result)] = "pending"]
  /\ issued' = IssueWaits(issued, {OutputHandle(result)})
  /\ trail' = trail \o <<"Opened", "Executing">>
  /\ console' = Append(console, "waitingExecution")
  /\ pc' = "executing"
  /\ UNCHANGED <<script, result, receipts, submissions, outcomes>>
  /\ UNCHANGED cabVars

\* waitForUserIntentExecutionReceipt resolves
OutputWaitResolves(tx) ==
  /\ pc = "executing"
  /\ InFlight(waits[OutputHandle(result)])
  /\ LET r == [handle |-> OutputHandle(result), tx |-> tx]
     IN /\ waits' = [waits EXCEPT ![OutputHandle(result)] = "ok"]
        /\ receipts' = [receipts EXCEPT ![OutputHandle(result)] = r]
        /\ outcomes' = Append(outcomes, ExecutedOutcome(r))
  /\ trail' = Append(trail, "Executed")
  /\ console' = console \o ExecutedLines(script)
  /\ pc' = IF RefreshesCab(script) THEN "refreshing" ELSE "done"
  /\ UNCHANGED <<script, result, issued, submissions>>
  /\ UNCHANGED cabVars

\* waitForUserIntentExecutionReceipt throws
OutputWaitFails ==
  /\ pc = "executing"
  /\ InFlight(waits[OutputHandle(result)])
  /\ Catch("output", {OutputHandle(result)})
  /\ UNCHANGED <<script, result, receipts, issued, submissions>>
  /\ UNCHANGED cabVars

\* the getCAB after the execution returns
RefreshReturns ==
  /\ pc = "refreshing"
  /\ pc' = "done"
  /\ console' = console \o <<"updatedCab", "completed">>
  /\ UNCHANGED <<script, result, waits, receipts, issued, submissions, trail,
                 outcomes>>
  /\ UNCHANGED cabVars

\* the getCAB after the execution throws: it is inside the try block of the
\* submission, so the same catch block reports it
RefreshFails ==
  /\ pc = "refreshing"
  /\ Catch("refresh", {})
  /\ UNCHANGED <<script, result, receipts, issued, submissions>>
  /\ UNCHANGED cabVars

\* a wait polls the relay for its handle; every wait is called with the
\* uiHash alone, so the only clock is the timeout of one transport request
PollSent(h) ==
  /\ waits[h] = "pending"
  /\ waits' = [waits EXCEPT ![h] = "polling"]
  /\ UNCHANGED <<script, pc, result, receipts, issued, submissions, trail,
                 outcomes, console>>
  /\ UNCHANGED cabVars

\* the relay answers Pending: the wait sleeps until its next poll
PollPending(h) ==
  /\ waits[h] = "polling"
  /\ waits' = [waits EXCEPT ![h] = "pending"]
  /\ UNCHANGED <<script, pc, result, receipts, issued, submissions, trail,
                 outcomes, console>>
  /\ UNCHANGED cabVars

----------------------------------------------------------------------------
(* The balance aggregation behind intentClient.getCAB *)

Chains == 1..NumChains
Tickers == {"USDC", "MATIC"}
Pairs == Chains \X Tickers
Amounts == {k * AmountUnit : k \in 0..MaxAmount}

NoArg == [m |-> 0, e |-> 0, ticker |-> "none"]

\* the Chain Registry: the decimals of a token on a chain; the USDC of chain
\* 2 has 18 decimals (as the USDC of bsc has), the USDC of the others 6
Precision(c, t) == IF t = "USDC" /\ c # 2 THEN 6 ELSE 18

\* the Chain Registry: MATIC has a token address on chain 1 only
TokenAddress(c, t) == IF t = "MATIC" /\ c # 1 THEN "Unsupported" ELSE <<c, t>>

Supported == {p \in Pairs : TokenAddress(p[1], p[2]) # "Unsupported"}

RECURSIVE SumOver(_, _)
SumOver(f, S) ==
  IF S = {} THEN 0
  ELSE LET x == CHOOSE y \in S : TRUE IN f[x] + SumOver(f, S \ {x})

\* the pairs of ticker t that have a per-chain Balance in the result
EntriesOf(t) == {p \in Pairs : p[2] = t /\ query[p] \in {"ok", "failed"}}

CabIdle ==
  /\ cabPc = "idle"
  /\ query = [p \in Pairs |-> "unissued"]
  /\ returned = [p \in Pairs |-> 0]
  /\ entry = [p \in Pairs |-> 0]
  /\ total = [t \in Tickers |-> 0]
  /\ warnings = {}
  /\ cab = <<>>
  /\ chainBalances = <<>>
  /\ printed = <<>>

FormatIdle ==
  /\ formatArg = NoArg
  /\ formatted = "none"

TrackerIdle ==
  /\ script = "cab-explorer"
  /\ pc = "start"
  /\ result = NoResult
  /\ waits = [h \in Handles |-> "none"]
  /\ receipts = [h \in Handles |-> NoReceipt]
  /\ issued = [h \in Handles |-> 0]
  /\ submissions = 0
  /\ trail = <<>>
  /\ outcomes = <<>>
  /\ console = <<>>

TotalLostOnFailure(sum) == 0

\* what a failed query leaves of the ticker's running total
TotalAfterFailure(sum) == sum

AddDropsUnit(sum, a) == IF a > 0 THEN sum + a - 1 ELSE sum

\* exact integer addition in base units
Add(sum, a) == sum + a

\* getCAB({networks, tokenTickers}): one balance query per pair the registry
\* resolves, all issued together; the other pairs are skipped
GetCAB ==
  /\ cabPc = "idle"
  /\ cabPc' = "querying"
  /\ query' = [p \in Pairs |-> IF p \in Supported THEN "pending" ELSE "skipped"]
  /\ UNCHANGED <<returned, entry, total, warnings, viewVars, formatVars>>
  /\ UNCHANGED trackerVars

\* the balance query of pair p returns amount a
QueryReturns(p, a) ==
  /\ cabPc = "querying"
  /\ query[p] = "pending"
  /\ query' = [query EXCEPT ![p] = "ok"]
  /\ returned' = [returned EXCEPT ![p] = a]
  /\ entry' = [entry EXCEPT ![p] = a]
  /\ total' = [total EXCEPT ![p[2]] = Add(@, a)]
  /\ UNCHANGED <<cabPc, warnings, viewVars, formatVars>>
  /\ UNCHANGED trackerVars

\* the balance query of pair p fails: amount 0 and a warning, the call goes on
QueryFails(p) ==
  /\ cabPc = "querying"
  /\ query[p] = "pending"
  /\ query' = [query EXCEPT ![p] = "failed"]
  /\ entry' = [entry EXCEPT ![p] = 0]
  /\ total' = [total EXCEPT ![p[2]] = TotalAfterFailure(@)]
  /\ warnings' = warnings \cup {p}
  /\ UNCHANGED <<cabPc, returned, viewVars, formatVars>>
  /\ UNCHANGED trackerVars

\* the orders a finite set can be listed in
Orders(S) ==
  {f \in [1..Cardinality(S) -> S] : \A i, j \in DOMAIN f : f[i] = f[j] => i = j}

ChainsOf(t) == {p[1] : p \in EntriesOf(t)}

\* cab.tokens: one token per ticker with its total and its per-chain balances
CabTokens(order, chainOrder) ==
  [i \in 1..Len(order) |->
     LET t == order[i]
     IN [ticker |-> t,
         amount |-> total[t],
         balances |-> [j \in 1..Len(chainOrder[t]) |->
                         [chainId |-> chainOrder[t][j],
                          amount |-> entry[<<chainOrder[t][j], t>>]]]]]

\* every issued query has returned or failed: the call completes and hands
\* back cab.tokens, in no promised order
CabCompletes ==
  /\ cabPc = "querying"
  /\ \A p \in Pairs : query[p] # "pending"
  /\ cabPc' = "done"
  /\ \E order \in Orders(Tickers) :
       \E chainOrder \in [Tickers -> UNION {Orders(ChainsOf(t)) : t \in Tickers}] :
         /\ \A t \in Tickers : chainOrder[t] \in Orders(ChainsOf(t))
         /\ cab' = CabTokens(order, chainOrder)
  /\ UNCHANGED <<query, returned, entry, total, warnings, chainBalances,
                 printed, formatVars>>
  /\ UNCHANGED trackerVars

----------------------------------------------------------------------------
(* cab-explorer.ts: what main() prints once getCAB has returned *)

\* BigInt(amount): a base-unit amount m * 10^e, kept as mantissa and exponent
BigInt(a) == [m |-> a, e |-> 0]

\* m * 10^e < n * 10^f on naturals, by division only
RECURSIVE ScaledLess(_, _, _, _)
ScaledLess(m, e, n, f) ==
  IF e > 0 /\ f > 0 THEN ScaledLess(m, e - 1, n, f - 1)
  ELSE IF e = 0 /\ f = 0 THEN m < n
  ELSE IF e = 0 THEN ScaledLess(m \div 10, 0, n, f - 1)
  ELSE ScaledLess(m, e - 1, (n + 9) \div 10, 0)

getTokenDecimals(ticker) ==
  CASE ticker \in {"USDC", "USDT"} -> 6
    [] ticker = "DAI" -> 18
    [] ticker \in {"ETH", "MATIC", "BNB", "AVAX"} -> 18
    [] OTHER -> 18

formatTokenAmountZeroIsDust(amount, ticker) ==
  LET decimals == getTokenDecimals(ticker)
  IN IF ScaledLess(amount.m, amount.e + 2, 1, decimals) THEN "dust"
     ELSE IF ~ ScaledLess(amount.m, amount.e, 1, decimals + 2)
          THEN "significant"
     ELSE "plain"

\* numAmount = Number(formatUnits(amount, decimals)) is amount / 10^decimals;
\* the tag tells numAmount === 0, < 0.01, >= 100 and the rest apart.  The
\* conversion to a double keeps the order of amounts of up to 15 digits.
formatTokenAmount(amount, ticker) ==
  LET decimals == getTokenDecimals(ticker)
  IN IF amount.m = 0 THEN "plain"
     ELSE IF ScaledLess(amount.m, amount.e + 2, 1, decimals) THEN "dust"
     ELSE IF ~ ScaledLess(amount.m, amount.e, 1, decimals + 2)
          THEN "significant"
     ELSE "plain"

NormLessRaw(a, b) == a.amount < b.amount

\* Number(formatUnits(a.amount, getTokenDecimals(a.ticker))) is below the
\* same number of b
NormLess(a, b) ==
  ScaledLess(a.amount, getTokenDecimals(b.ticker),
             b.amount, getTokenDecimals(a.ticker))

\* x put behind every element that is not below it
Insert(x, s) ==
  LET lower == {k \in 1..Len(s) : NormLess(s[k], x)}
      at == IF lower = {} THEN Len(s) + 1
            ELSE CHOOSE k \in lower : \A l \in lower : k <= l
  IN SubSeq(s, 1, at - 1) \o <<x>> \o SubSeq(s, at, Len(s))

\* [...list].sort((a, b) => Number(b) - Number(a)): descending and stable
RECURSIVE SortDesc(_)
SortDesc(list) ==
  IF Len(list) = 0 THEN <<>>
  ELSE Insert(list[Len(list)], SortDesc(SubSeq(list, 1, Len(list) - 1)))

PushOverwrites(list, x) == <<x>>

\* chainBalances[chainId].push(x)
Push(list, x) == Append(list, x)

\* for (const balance of token.balances): push under balance.chainId
RECURSIVE PushBalances(_, _, _, _)
PushBalances(groups, ticker, balances, j) ==
  IF j > Len(balances) THEN groups
  ELSE LET c == balances[j].chainId
           x == [ticker |-> ticker, amount |-> balances[j].amount]
           old == IF c \in DOMAIN groups THEN groups[c] ELSE <<>>
       IN PushBalances(
            [d \in DOMAIN groups \cup {c} |->
               IF d = c THEN Push(old, x) ELSE groups[d]],
            ticker, balances, j + 1)

\* for (const token of cab.tokens): group its balances by chain
RECURSIVE GroupByChain(_, _, _)
GroupByChain(groups, tokens, i) ==
  IF i > Len(tokens) THEN groups
  ELSE GroupByChain(
         PushBalances(groups, tokens[i].ticker, tokens[i].balances, 1),
         tokens, i + 1)

\* one printed balance line: the decimals and the tag formatTokenAmount used
Line(section, c, x) ==
  [section |-> section, chainId |-> c, ticker |-> x.ticker,
   amount |-> x.amount, decimals |-> getTokenDecimals(x.ticker),
   tag |-> formatTokenAmount(BigInt(x.amount), x.ticker)]

Lines(section, c, list) ==
  [k \in 1..Len(list) |-> Line(section, c, list[k])]

\* Object.entries(chainBalances): integer keys in ascending order
RECURSIVE ChainLines(_, _)
ChainLines(groups, c) ==
  IF c > NumChains THEN <<>>
  ELSE (IF c \in DOMAIN groups THEN Lines("chain", c, SortDesc(groups[c]))
        ELSE <<>>) \o ChainLines(groups, c + 1)

\* the capability lines: the tokens of cab.tokens with an amount above zero
RECURSIVE CapabilityLines(_, _)
CapabilityLines(tokens, i) ==
  IF i > Len(tokens) THEN <<>>
  ELSE (IF tokens[i].amount > 0
        THEN <<Line("capability", 0, tokens[i])>> ELSE <<>>)
       \o CapabilityLines(tokens, i + 1)

\* main() after getCAB: totals, breakdown by chain, capabilities
Explore ==
  /\ cabPc = "done"
  /\ cabPc' = "explored"
  /\ chainBalances' = (IF Len(cab) = 0 THEN chainBalances
                       ELSE GroupByChain(<<>>, cab, 1))
  /\ printed' = (IF Len(cab) = 0 THEN <<>>
                 ELSE Lines("total", 0, SortDesc(cab))
                      \o ChainLines(chainBalances', 1)
                      \o CapabilityLines(cab, 1))
  /\ UNCHANGED <<query, returned, entry, total, warnings, cab, formatVars>>
  /\ UNCHANGED trackerVars

MaxMantissa == 3    \* leading digits of an amount handed to formatTokenAmount
MaxExp == 21        \* trailing zeros of an amount handed to formatTokenAmount

FormatTickers ==
  {"USDC", "USDT", "DAI", "ETH", "MATIC", "BNB", "AVAX", "OTHER"}

FormatArgs ==
  [m : 0..MaxMantissa, e : 0..MaxExp, ticker : FormatTickers]

\* formatTokenAmount(amount, ticker) called on one entry
Format ==
  /\ formatArg.ticker # "none"
  /\ formatted = "none"
  /\ formatted' = formatTokenAmount([m |-> formatArg.m, e |-> formatArg.e],
                                    formatArg.ticker)
  /\ UNCHANGED <<cabPc, query, returned, entry, total, warnings, viewVars,
                 formatArg>>
  /\ UNCHANGED trackerVars

----------------------------------------------------------------------------
(* Specifications *)

Init == TrackerInit /\ CabIdle /\ FormatIdle

Next ==
  \/ Submit
  \/ SubmitFails
  \/ \E n \in 0..MaxInputs : SubmitReturns(n)
  \/ \E h \in Handles, tx \in 1..MaxTx : InputWaitResolves(h, tx)
  \/ \E h \in Handles : InputWaitFails(h)
  \/ \E h \in Handles : OrphanWaitFails(h)
  \/ JoinResolves
  \/ \E tx \in 1..MaxTx : OutputWaitResolves(tx)
  \/ OutputWaitFails
  \/ RefreshReturns
  \/ RefreshFails

Spec == Init /\ [][Next]_vars

\* the relay answers the poll of handle h
PollAnswered(h) ==
  \/ PollPending(h)
  \/ \E tx \in 1..MaxTx : InputWaitResolves(h, tx)
  \/ InputWaitFails(h)
  \/ OrphanWaitFails(h)
  \/ h = OutputHandle(result) /\ \E tx \in 1..MaxTx : OutputWaitResolves(tx)
  \/ h = OutputHandle(result) /\ OutputWaitFails

PollNext ==
  \/ Next
  \/ \E h \in Handles : PollSent(h)
  \/ \E h \in Handles : PollPending(h)

\* every request is answered (the transport gives up on a request after
\* `timeout`), every wait keeps polling, main() runs when it can
FairSpec ==
  /\ Init
  /\ [][PollNext]_vars
  /\ WF_vars(Submit)
  /\ WF_vars(SubmitFails \/ \E n \in 0..MaxInputs : SubmitReturns(n))
  /\ WF_vars(JoinResolves)
  /\ WF_vars(RefreshReturns \/ RefreshFails)
  /\ \A h \in Handles : WF_vars(PollSent(h)) /\ WF_vars(PollAnswered(h))

CabInit == TrackerIdle /\ CabIdle /\ FormatIdle

CabNext ==
  \/ GetCAB
  \/ \E p \in Pairs, a \in Amounts : QueryReturns(p, a)
  \/ \E p \in Pairs : QueryFails(p)
  \/ CabCompletes
  \/ Explore

CabSpec == CabInit /\ [][CabNext]_vars

FormatInit ==
  /\ TrackerIdle
  /\ CabIdle
  /\ formatArg \in FormatArgs
  /\ formatted = "none"

FormatNext == Format

FormatSpec == FormatInit /\ [][FormatNext]_vars

----------------------------------------------------------------------------
(* Properties *)

Last(s) == s[Len(s)]
InputsOk == {h \in result.inputs : waits[h] = "ok"}
InputsFailed == {h \in result.inputs : waits[h] = "failed"}
Pending == {h \in Handles : InFlight(waits[h])}
Collected == {receipts[h] : h \in InputsOk}
Submitted == result # NoResult

Rank(st) ==
  CASE st = "Idle" -> 0
    [] st = "Submitted" -> 1
    [] st = "OpeningInputs" -> 2
    [] st = "Opened" -> 3
    [] st = "Executing" -> 4
    [] st = "Executed" -> 5
    [] OTHER -> 6

\* C1: the wait on the output handle is never issued before every one of the
\* N input waits of the SubmissionResult has resolved successfully.
C1_OutputWaitAfterAllInputs ==
  issued[Out] > 0 => \A h \in result.inputs : waits[h] = "ok"

\* C2: when exactly one of N > 1 input waits fails and the other N-1
\* complete, the outcome is Failed and carries the receipts of all N-1.
C2_FailedCarriesCompletedReceipts ==
  (/\ Cardinality(result.inputs) > 1
   /\ Cardinality(InputsFailed) = 1
   /\ Cardinality(InputsOk) = Cardinality(result.inputs) - 1)
  => /\ outcomes # <<>>
     /\ Last(outcomes).kind = "Failed"
     /\ Collected \subseteq Last(outcomes).receipts

\* C3 as stated: an intent submitted with an empty input token set issues
\* zero input waits before the single output wait.
C3_EmptyInputTokensNoInputWait ==
  (Submitted /\ InputTokenCount(script) = 0)
  => \A h \in Handles \ {Out} : issued[h] = 0

\* C3 as amended: when the SubmissionResult carries no input tracking handle,
\* no input wait is issued, the join over the input waits completes at once
\* (Opened) and exactly one wait, on the output handle, follows it.
C3_NoHandlesNoInputWait ==
  (Submitted /\ result.inputs = {})
  => /\ \A h \in Handles \ {Out} : issued[h] = 0
     /\ pc = "opening" => ENABLED JoinResolves
     /\ pc # "opening" => issued[Out] = 1
     /\ (WaitsOnInputs(script) /\ pc # "opening")
          => trail[3] = "Opened" /\ trail[4] = "Executing"

C3_Witness ==
  /\ script = "intent-example"
  /\ Submitted /\ result.inputs = {}
  /\ State = "Executing"

\* C7: the tracker state only moves forward along Submitted, OpeningInputs,
\* Opened, Executing, Executed, or to Failed from a non-terminal state;
\* Failed and Executed are never left.
C7_TrailOrdered ==
  \A i \in 1..(Len(trail) - 1) :
    /\ trail[i] \notin {"Executed", "Failed"}
    /\ trail[i + 1] = "Failed" \/ Rank(trail[i + 1]) > Rank(trail[i])

\* C8: in Executing exactly one wait is pending, on the output handle of the
\* SubmissionResult; when it resolves the outcome reported is Executed with
\* the receipt of that wait; when it throws the outcome reported is Failed.
C8_OneOutputWait ==
  /\ \A h \in Handles : h \notin result.inputs /\ h # Out => issued[h] = 0
  /\ issued[Out] <= 1
  /\ State = "Executing"
       => issued[Out] = 1 /\ waits[Out] = "pending" /\ Pending = {Out}
  /\ waits[Out] = "ok"
       => \E i \in 1..Len(outcomes) :
            /\ outcomes[i].kind = "Executed"
            /\ outcomes[i].receipts = {receipts[Out]}
            /\ receipts[Out].handle = result.output
  /\ waits[Out] = "failed"
       => /\ Last(outcomes) = FailedOutcome("output")
          /\ \A i \in 1..Len(outcomes) : outcomes[i].kind = "Failed"

C8_Witness ==
  /\ waits[Out] = "ok"
  /\ Cardinality(result.inputs) = 2
  /\ State = "Executed"

\* C9: the intent is submitted at most once and each wait is issued at most
\* once; once a failure has been reported no submission and no wait is issued
\* any more, and a failure is always written to the console.
C9_NoRetry ==
  [][/\ submissions' <= 1
     /\ \A h \in Handles : issued'[h] <= 1
     /\ "Failed" \in Range(trail)
          => submissions' = submissions /\ issued' = issued
     /\ "Failed" \in Range(trail') => "error" \in Range(console')]_vars

C9_Witness ==
  /\ State = "Failed"
  /\ Last(outcomes).error = "output"
  /\ issued[1] = 1 /\ issued[Out] = 1 /\ submissions = 1

\* C10: when the input join fails because one wait failed, the tracker ends
\* in Failed with the receipts collected so far and no wait is left pending
\* once the outcome has been produced.
C10_NoOrphanedWait ==
  (outcomes # <<>> /\ Last(outcomes).kind = "Failed")
  => /\ Pending = {}
     /\ Last(outcomes).error = "input"
          => Collected \subseteq Last(outcomes).receipts

\* C4: for every ticker of the result the unified total is the exact integer
\* sum, in base units, of the ticker's per-chain amounts.
C4_TotalIsSum ==
  \A t \in Tickers : total[t] = SumOver(entry, EntriesOf(t))

C4_Witness ==
  /\ cabPc = "done"
  /\ entry[<<1, "USDC">>] = 5 * AmountUnit
  /\ entry[<<2, "USDC">>] = 3 * AmountUnit
  /\ total["USDC"] = 8 * AmountUnit

\* C5: a failed query of one pair leaves the call completing with amount 0
\* and a warning for that pair, and every other pair contributes what its
\* own query returned.
C5_FailedQueryIsZero ==
  /\ \A p \in Pairs :
       /\ query[p] = "failed" => entry[p] = 0 /\ p \in warnings
       /\ query[p] = "ok" => entry[p] = returned[p] /\ p \notin warnings
  /\ \A t \in Tickers :
       total[t] = SumOver(returned, {p \in EntriesOf(t) : query[p] = "ok"})
  /\ (cabPc = "querying" /\ \A p \in Pairs : query[p] # "pending")
       => ENABLED CabCompletes

C5_Witness ==
  /\ cabPc = "done"
  /\ query[<<1, "USDC">>] = "failed"
  /\ query[<<2, "USDC">>] = "ok"
  /\ returned[<<2, "USDC">>] = 3 * AmountUnit
  /\ total["USDC"] = 3 * AmountUnit

\* C11: a submission, input-wait or output-wait failure reaches the caller as
\* a failure outcome holding the receipts collected so far, and the run does
\* not end by reporting completion.
C11_FailurePropagates ==
  \A i \in 1..Len(outcomes) :
    (outcomes[i].kind = "Failed"
       /\ outcomes[i].error \in {"submit", "input", "output"})
    => /\ console[Len(console)] # "completed"
       /\ Collected \subseteq outcomes[i].receipts

Count(seq, x) == Cardinality({i \in 1..Len(seq) : seq[i] = x})

\* C13: the join to Opened fires at most once, only when every input wait of
\* the SubmissionResult has resolved, and what it leaves (tracker states,
\* waits, one collected receipt per handle) does not depend on the order in
\* which the waits resolved.
C13_JoinAfterLast ==
  /\ Count(trail, "Opened") <= 1
  /\ "Opened" \in Range(trail)
       => /\ InputsOk = result.inputs
          /\ \A h \in result.inputs : receipts[h].handle = h
          /\ Cardinality(Collected) = Cardinality(result.inputs)
          /\ Count(console, "opened") = Cardinality(result.inputs)
  /\ pc = "executing" /\ WaitsOnInputs(script)
       => /\ trail = <<"Submitted", "OpeningInputs", "Opened", "Executing">>
          /\ waits = [h \in Handles |->
                        IF h \in result.inputs THEN "ok"
                        ELSE IF h = Out THEN "pending" ELSE "none"]
  /\ (pc = "opening" /\ InputsOk = result.inputs) => ENABLED JoinResolves
  /\ (pc = "opening" /\ InputsOk # result.inputs) => ~ ENABLED JoinResolves

C13_Witness ==
  /\ Cardinality(result.inputs) = 3
  /\ "Opened" \in Range(trail)
  /\ receipts[2].tx # receipts[3].tx

\* C15: once the tracker has entered OpeningInputs, exactly one wait has been
\* issued on every input handle of the SubmissionResult and on no other input
\* handle, and all of them are issued before main() suspends on the join.
C15_OneWaitPerInputHandle ==
  "OpeningInputs" \in Range(trail)
  => /\ \A h \in Handles \ {Out} :
          issued[h] = IF h \in result.inputs THEN 1 ELSE 0
     /\ \A h \in result.inputs : waits[h] # "none"
     /\ pc = "opening" => issued[Out] = 0

C15_Witness ==
  /\ pc = "opening"
  /\ Cardinality(result.inputs) = 3
  /\ \A h \in result.inputs : waits[h] = "pending"

\* C19: a wait is issued only after sendUserIntent has returned, none is
\* issued when the submission throws, and every wait is on a handle of the
\* run's own SubmissionResult.
C19_WaitsFollowSubmission ==
  /\ \A h \in Handles :
       issued[h] > 0 => Submitted /\ h \in result.inputs \cup {result.output}
  /\ ~ Submitted => \A h \in Handles : waits[h] = "none"
  /\ (outcomes # <<>> /\ outcomes[1].error = "submit")
       => \A h \in Handles : issued[h] = 0

C19_Witness ==
  /\ Submitted
  /\ issued[2] = 1
  /\ issued[result.output] = 1
  /\ State = "Executing"

\* C12: under fair scheduling of the polls every submitted intent ends with
\* a terminal outcome and no wait stays in flight, also when the relay keeps
\* answering Pending.
C12_TrackingTerminates ==
  Submitted ~> (outcomes # <<>> /\ Pending = {})

\* C14: each completed query changes the aggregate by its own amount only,
\* whatever completed before it, so the returned set of unified balances
\* (totals and per-chain entries) is fixed by the per-pair answers and not by
\* the order they arrived in.
C14_OrderIndependent ==
  /\ [](cabPc \in {"done", "explored"} =>
          /\ {cab[i].ticker : i \in DOMAIN cab} = Tickers
          /\ \A i \in DOMAIN cab :
               /\ cab[i].amount =
                    SumOver([p \in Pairs |->
                               IF query[p] = "ok" THEN returned[p] ELSE 0],
                            EntriesOf(cab[i].ticker))
               /\ {cab[i].balances[j] : j \in DOMAIN cab[i].balances} =
                    {[chainId |-> p[1],
                      amount |-> IF query[p] = "ok" THEN returned[p] ELSE 0] :
                       p \in EntriesOf(cab[i].ticker)})
  /\ [][\A p \in Pairs :
          (query[p] = "pending" /\ query'[p] # "pending")
          => /\ entry' = [entry EXCEPT
                            ![p] = IF query'[p] = "ok" THEN returned'[p] ELSE 0]
             /\ total' = [total EXCEPT ![p[2]] = @ + entry'[p]]]_vars

C14_Witness ==
  /\ cabPc = "querying"
  /\ query[<<1, "USDC">>] = "pending"
  /\ query[<<2, "USDC">>] = "ok"
  /\ query[<<1, "MATIC">>] = "failed"
  /\ total["USDC"] = 3 * AmountUnit

\* C16: every per-chain balance line is normalized with the decimals the
\* registry holds for that line's (chain, token) pair.
C16_PrecisionLookedUp ==
  \A k \in DOMAIN printed :
    printed[k].section = "chain"
    => printed[k].decimals = Precision(printed[k].chainId, printed[k].ticker)

\* x is below y once both are normalized by the decimals of their tickers
LineLess(x, y) ==
  ScaledLess(x.amount, getTokenDecimals(y.ticker),
             y.amount, getTokenDecimals(x.ticker))

TotalsDescend ==
  \A i, j \in DOMAIN printed :
    (i < j /\ printed[i].section = "total" /\ printed[j].section = "total")
    => ~ LineLess(printed[i], printed[j])

ArgBelowPow10(k) ==
  ScaledLess(formatArg.m, formatArg.e - (IF k < 0 THEN k ELSE 0), 1,
             getTokenDecimals(formatArg.ticker) + (IF k > 0 THEN k ELSE 0))

InCab(c, x) ==
  {ij \in {<<i, j>> \in (DOMAIN cab) \X Chains : j \in DOMAIN cab[i].balances} :
     /\ cab[ij[1]].balances[ij[2]].chainId = c
     /\ cab[ij[1]].ticker = x.ticker
     /\ cab[ij[1]].balances[ij[2]].amount = x.amount}

InGroup(c, x) ==
  IF c \in DOMAIN chainBalances
  THEN {k \in DOMAIN chainBalances[c] : chainBalances[c][k] = x}
  ELSE {}

\* C20: every (ticker, chainId, amount) entry of cab.tokens sits exactly
\* once in chainBalances under its own chain, nothing else sits there, and
\* cab.tokens is as getCAB returned it.
C20_RegroupIsPartition ==
  /\ [](cabPc = "explored" =>
          /\ DOMAIN chainBalances \subseteq Chains
          /\ \A c \in Chains, x \in [ticker : Tickers, amount : Amounts] :
               Cardinality(InGroup(c, x)) = Cardinality(InCab(c, x)))
  /\ [][(cabPc \in {"done", "explored"}) => cab' = cab]_vars

C20_Witness ==
  /\ cabPc = "explored"
  /\ cab[1].ticker = "USDC"
  /\ cab[1].balances[1].chainId = 2
  /\ cab[1].balances[1].amount = 3 * AmountUnit
  /\ Len(chainBalances[1]) = 2
  /\ chainBalances[2] = <<[ticker |-> "USDC", amount |-> 3 * AmountUnit]>>

====
